---- MODULE Spec2Model ----
(***************************************************************************)
(* Subscription lifecycle of src/main.cpp: the constructor's setup         *)
(* protocol, Close()/CloseImpl()'s teardown protocol, the destructor, the  *)
(* listener, the two mutexes and main's scope.  Every transport call       *)
(* returns DXF_SUCCESS or DXF_FAILURE nondeterministically.                *)
(***************************************************************************)
EXTENDS Integers, Sequences, FiniteSets

\* ---------------------------------------------------------------- bounds
NSubs == 2
MaxCloses == 2
MaxFaults == 1
MaxData == 2
MaxCode == 2

\* ------------------------------------------------------------- constants
\* threads: main, a second thread of the application that calls Close(), and
\* the transport's thread that invokes the listeners
Main == 0
Closer == 1
Delivery == 2
NoThread == -1
NULL == 0
dx_ec_success == 0

Closers == {Closer}
Threads == {Main} \cup Closers
AllThreads == Threads \cup {Delivery}
SubIds == 1..NSubs

Results == {"DXF_SUCCESS", "DXF_FAILURE"}
SetupOps == {"create", "attach", "add"}
TeardownOps == {"remove", "detach", "close"}

\* what the transport may hand to the listener and answer to dxf_get_last_error
EventTypes == {"DXF_ET_QUOTE", "DXF_ET_TRADE", "DXF_ET_ORDER"}
DataCounts == 1..MaxData
ErrorCodes == 0..MaxCode
Descriptions == {"description A", "description B"}

VARIABLES
    pc,            \* position of every thread
    cur,           \* the Subscription a thread is operating on (this)
    ret,           \* where log()/processLastError() returns to
    via,           \* how CloseImpl was entered: "Close" or "dtor"
    lastRes,       \* result of the last transport call of the running operation
    mutex,         \* Subscription::mutex, its owner
    ioMutex,       \* the global ioMutex, its owner
    handle,        \* Subscription::handle
    errorCode,     \* Subscription::errorCode
    calls,         \* per handle: the transport calls issued, with their results
    tAttached,     \* transport side: listener currently attached to the handle
    nsubs,         \* subs.size()
    destroyed,     \* Subscriptions whose destructor has run
    conn,          \* the connection c: "none", "open", "closed"
    exiting,       \* main has left its body (return 0)
    nConnCloses,   \* calls of dxf_close_connection(c)
    nCloses,       \* Close() calls issued so far
    nFaults,       \* transport calls that have failed so far
    closeReturned, \* per Subscription: some Close() call has returned
    glRes,         \* processLastError: what dxf_get_last_error returned
    glCode,        \*   and the errorCode and errorDescription it stored
    glDesc,
    message,       \* processLastError: what it wrote, <<>> before it ran
    evType,        \* the listener's arguments eventType and dataCount
    dataCount,
    output         \* what the listener wrote, <<>> before it ran

vars == <<pc, cur, ret, via, lastRes, mutex, ioMutex, handle, errorCode, calls,
          tAttached, nsubs, destroyed, conn, exiting, nConnCloses, nCloses, nFaults,
          closeReturned, glRes, glCode, glDesc, message, evType, dataCount, output>>

subVars == <<handle, errorCode, calls, tAttached>>
mainVars == <<nsubs, destroyed, conn, exiting, nConnCloses>>
closeVars == <<nCloses, closeReturned>>
ioVars == <<glRes, glCode, glDesc, message, evType, dataCount, output>>
countVars == <<closeVars, nFaults>>

\* ------------------------------------------------------------- helpers
Home(t) == IF t = Main THEN "run" ELSE IF t = Delivery THEN "d_idle" ELSE "idle"

Call(op, r) == [op |-> op, ok |-> (r = "DXF_SUCCESS")]

\* a transport call on a subscription handle returns r; at most MaxFaults of
\* them fail in one run
Fault(r) ==
    IF r = "DXF_FAILURE"
    THEN nFaults < MaxFaults /\ nFaults' = nFaults + 1
    ELSE UNCHANGED nFaults

Goto(t, p) == pc' = [pc EXCEPT ![t] = p]

\* log(...) and then continue at p
LogThen(t, p) ==
    /\ pc' = [pc EXCEPT ![t] = "log_lock"]
    /\ ret' = [ret EXCEPT ![t] = p]

\* processLastError() and then continue at p
ErrorThen(t, p) ==
    /\ pc' = [pc EXCEPT ![t] = "ple_lock"]
    /\ ret' = [ret EXCEPT ![t] = p]

\* ------------------------------------------------------ what is written
NoErrorMessage == <<"No error information is stored">>
RetrievedMessage(code, desc) ==
    <<"Error occurred and successfully retrieved: error code, description", code, desc>>
SubsystemMessage == <<"An error occurred but the error subsystem failed to initialize">>

\* processLastError() testing the error code before the result of the retrieval
ProcessLastErrorMessage_CodeFirst(res, code, desc) ==
    IF code = dx_ec_success
    THEN NoErrorMessage
    ELSE IF res = "DXF_SUCCESS"
         THEN RetrievedMessage(code, desc)
         ELSE SubsystemMessage

\* what processLastError() writes for an answer of dxf_get_last_error
ProcessLastErrorMessage(res, code, desc) ==
    IF res = "DXF_SUCCESS"
    THEN IF code = dx_ec_success
         THEN NoErrorMessage
         ELSE RetrievedMessage(code, desc)
    ELSE SubsystemMessage

\* what the listener writes: its heading and, for a quote event, the one
\* record that data points to, whatever dataCount says
ListenerHeading == "Sub[id]: Listener[userData]: "
QuoteRecord(i) == <<"Quote", i>>
ListenerOutput(type, count) ==
    <<ListenerHeading>> \o (IF type = "DXF_ET_QUOTE" THEN <<QuoteRecord(1)>> ELSE <<>>)

\* main is about to start: no connection, no Subscription
ProgInit ==
    /\ pc = [t \in AllThreads |-> IF t = Main THEN "m_conn" ELSE Home(t)]
    /\ cur = [t \in AllThreads |-> NULL]
    /\ ret = [t \in AllThreads |-> "none"]
    /\ via = [t \in AllThreads |-> "none"]
    /\ lastRes = [t \in AllThreads |-> "none"]
    /\ mutex = [s \in SubIds |-> NoThread]
    /\ ioMutex = NoThread
    /\ handle = [s \in SubIds |-> NULL]
    /\ errorCode = [s \in SubIds |-> "DXF_SUCCESS"]
    /\ calls = [s \in SubIds |-> <<>>]
    /\ tAttached = [s \in SubIds |-> FALSE]
    /\ nsubs = 0
    /\ destroyed = {}
    /\ conn = "none"
    /\ exiting = FALSE
    /\ nConnCloses = 0
    /\ nCloses = 0
    /\ nFaults = 0
    /\ closeReturned = [s \in SubIds |-> FALSE]

\* the lifecycle is explored with one answer of dxf_get_last_error and one
\* kind of event: neither has a part in it
Init ==
    /\ ProgInit
    /\ glRes = "DXF_SUCCESS" /\ glCode = dx_ec_success /\ glDesc = "description A"
    /\ evType = "DXF_ET_QUOTE" /\ dataCount = 1
    /\ message = <<>> /\ output = <<>>

\* log() writing without waiting for ioMutex to be free
LogLock_NoWait(t) ==
    /\ pc[t] = "log_lock"
    /\ ioMutex' = t
    /\ Goto(t, "log_print")
    /\ UNCHANGED <<ioVars, cur, ret, via, lastRes, mutex, subVars, mainVars, countVars>>

\* ------------------------------------------------- log / processLastError
LogLock(t) ==
    /\ pc[t] = "log_lock"
    /\ ioMutex = NoThread
    /\ ioMutex' = t
    /\ Goto(t, "log_print")
    /\ UNCHANGED <<ioVars, cur, ret, via, lastRes, mutex, subVars, mainVars, countVars>>

LogPrint(t) ==
    /\ pc[t] = "log_print"
    /\ ioMutex = t
    /\ ioMutex' = NoThread
    /\ Goto(t, ret[t])
    /\ UNCHANGED <<ioVars, cur, ret, via, lastRes, mutex, subVars, mainVars, countVars>>

PLELock(t) ==
    /\ pc[t] = "ple_lock"
    /\ ioMutex = NoThread
    /\ ioMutex' = t
    /\ Goto(t, "ple_report")
    /\ UNCHANGED <<ioVars, cur, ret, via, lastRes, mutex, subVars, mainVars, countVars>>

PLEReport(t) ==
    /\ pc[t] = "ple_report"
    /\ ioMutex = t
    /\ ioMutex' = NoThread
    /\ Goto(t, ret[t])
    /\ UNCHANGED <<ioVars, cur, ret, via, lastRes, mutex, subVars, mainVars, countVars>>

\* ------------------------------------------------------------------ main
MainCreateConnection ==
    /\ pc[Main] = "m_conn"
    /\ \E r \in Results :
        IF r = "DXF_FAILURE"
        THEN /\ ErrorThen(Main, "done")
             /\ UNCHANGED conn
        ELSE /\ conn' = "open"
             /\ Goto(Main, "m_new")
             /\ UNCHANGED ret
    /\ UNCHANGED <<ioVars, cur, via, lastRes, mutex, ioMutex, subVars, nsubs, destroyed,
                   exiting, nConnCloses, countVars>>

\* ----------------------------------------------------------- constructor
CtorBegin ==
    /\ pc[Main] = "m_new"
    /\ nsubs < NSubs
    /\ cur' = [cur EXCEPT ![Main] = nsubs + 1]
    /\ lastRes' = [lastRes EXCEPT ![Main] = "none"]
    /\ LogThen(Main, "ctor_create")
    /\ UNCHANGED <<ioVars, via, mutex, ioMutex, subVars, mainVars, countVars>>

\* the constructor going on to attach the listener after a failed create
CtorCreate_NoReturn ==
    /\ pc[Main] = "ctor_create"
    /\ LET s == cur[Main] IN
       \E r \in Results :
        /\ Fault(r)
        /\ calls' = [calls EXCEPT ![s] = Append(@, Call("create", r))]
        /\ errorCode' = [errorCode EXCEPT ![s] = r]
        /\ lastRes' = [lastRes EXCEPT ![Main] = r]
        /\ handle' = [handle EXCEPT ![s] = IF r = "DXF_SUCCESS" THEN s ELSE @]
        /\ LogThen(Main, "ctor_attach")
    /\ UNCHANGED <<ioVars, cur, via, mutex, ioMutex, tAttached, mainVars, closeVars>>

CtorCreate ==
    /\ pc[Main] = "ctor_create"
    /\ LET s == cur[Main] IN
       \E r \in Results :
        /\ Fault(r)
        /\ calls' = [calls EXCEPT ![s] = Append(@, Call("create", r))]
        /\ errorCode' = [errorCode EXCEPT ![s] = r]
        /\ lastRes' = [lastRes EXCEPT ![Main] = r]
        /\ IF r = "DXF_FAILURE"
           THEN /\ ErrorThen(Main, "ctor_end")
                /\ UNCHANGED handle
           ELSE /\ handle' = [handle EXCEPT ![s] = s]
                /\ LogThen(Main, "ctor_attach")
    /\ UNCHANGED <<ioVars, cur, via, mutex, ioMutex, tAttached, mainVars, closeVars>>

\* the constructor going on to dxf_add_symbol after a failed attach
CtorAttach_NoReturn ==
    /\ pc[Main] = "ctor_attach"
    /\ LET s == cur[Main] IN
       \E r \in Results :
        /\ Fault(r)
        /\ calls' = [calls EXCEPT ![s] = Append(@, Call("attach", r))]
        /\ errorCode' = [errorCode EXCEPT ![s] = r]
        /\ lastRes' = [lastRes EXCEPT ![Main] = r]
        /\ tAttached' = [tAttached EXCEPT ![s] = (r = "DXF_SUCCESS")]
        /\ LogThen(Main, "ctor_add")
    /\ UNCHANGED <<ioVars, cur, via, mutex, ioMutex, handle, mainVars, closeVars>>

CtorAttach ==
    /\ pc[Main] = "ctor_attach"
    /\ LET s == cur[Main] IN
       \E r \in Results :
        /\ Fault(r)
        /\ calls' = [calls EXCEPT ![s] = Append(@, Call("attach", r))]
        /\ errorCode' = [errorCode EXCEPT ![s] = r]
        /\ lastRes' = [lastRes EXCEPT ![Main] = r]
        /\ IF r = "DXF_FAILURE"
           THEN /\ ErrorThen(Main, "ctor_end")
                /\ UNCHANGED tAttached
           ELSE /\ tAttached' = [tAttached EXCEPT ![s] = TRUE]
                /\ LogThen(Main, "ctor_add")
    /\ UNCHANGED <<ioVars, cur, via, mutex, ioMutex, handle, mainVars, closeVars>>

CtorAdd ==
    /\ pc[Main] = "ctor_add"
    /\ LET s == cur[Main] IN
       \E r \in Results :
        /\ Fault(r)
        /\ calls' = [calls EXCEPT ![s] = Append(@, Call("add", r))]
        /\ errorCode' = [errorCode EXCEPT ![s] = r]
        /\ lastRes' = [lastRes EXCEPT ![Main] = r]
        /\ IF r = "DXF_FAILURE"
           THEN ErrorThen(Main, "ctor_end")
           ELSE /\ Goto(Main, "ctor_end")
                /\ UNCHANGED ret
    /\ UNCHANGED <<ioVars, cur, via, mutex, ioMutex, handle, tAttached, mainVars, closeVars>>

\* the constructor returns and emplace_back stores the Subscription
CtorEnd ==
    /\ pc[Main] = "ctor_end"
    /\ nsubs' = nsubs + 1
    /\ Goto(Main, IF nsubs + 1 < NSubs THEN "m_new" ELSE "run")
    /\ cur' = [cur EXCEPT ![Main] = NULL]
    /\ ret' = [ret EXCEPT ![Main] = "none"]
    /\ lastRes' = [lastRes EXCEPT ![Main] = "none"]
    /\ UNCHANGED <<ioVars, via, mutex, ioMutex, subVars, destroyed, conn, exiting,
                   nConnCloses, countVars>>

\* ------------------------------------------------------------ Close()
CloseCall(t, s) ==
    /\ t \in Threads
    /\ pc[t] = Home(t)
    /\ ~exiting
    /\ nsubs = NSubs
    /\ s \in 1..nsubs
    /\ nCloses < MaxCloses
    /\ nCloses' = nCloses + 1
    /\ cur' = [cur EXCEPT ![t] = s]
    /\ via' = [via EXCEPT ![t] = "Close"]
    /\ lastRes' = [lastRes EXCEPT ![t] = "none"]
    /\ Goto(t, "close_lock")
    /\ UNCHANGED <<ioVars, ret, mutex, ioMutex, subVars, mainVars, closeReturned, nFaults>>

\* the guard of CloseImpl() without its test of the handle
TeardownGuard_IgnoresHandle(s) == errorCode[s] = "DXF_SUCCESS"

TeardownGuard(s) == handle[s] # NULL /\ errorCode[s] = "DXF_SUCCESS"

\* CloseImpl() entered on s: the guard, and log() before the first step
ImplEnter(t, s) ==
    IF TeardownGuard(s)
    THEN LogThen(t, "impl_remove")
    ELSE /\ Goto(t, "impl_ret")
         /\ UNCHANGED ret

\* Close() entering CloseImpl() without waiting for the Subscription's mutex
CloseLock_NoExclusion(t) ==
    /\ pc[t] = "close_lock"
    /\ mutex' = [mutex EXCEPT ![cur[t]] = t]
    /\ ImplEnter(t, cur[t])
    /\ UNCHANGED <<ioVars, cur, via, lastRes, ioMutex, subVars, mainVars, countVars>>

CloseLock(t) ==
    /\ pc[t] = "close_lock"
    /\ mutex[cur[t]] = NoThread
    /\ mutex' = [mutex EXCEPT ![cur[t]] = t]
    /\ ImplEnter(t, cur[t])
    /\ UNCHANGED <<ioVars, cur, via, lastRes, ioMutex, subVars, mainVars, countVars>>

\* ------------------------------------------------------------ CloseImpl()

\* dxf_remove_symbol storing its result in an errorCode shared by every Subscription
ImplRemove_SharedErrorCode(t) ==
    /\ pc[t] = "impl_remove"
    /\ LET s == cur[t] IN
       \E r \in Results :
        /\ Fault(r)
        /\ calls' = [calls EXCEPT ![s] = Append(@, Call("remove", r))]
        /\ errorCode' = [b \in SubIds |-> r]
        /\ lastRes' = [lastRes EXCEPT ![t] = r]
        /\ IF r = "DXF_FAILURE"
           THEN ErrorThen(t, "impl_ret")
           ELSE LogThen(t, "impl_detach")
    /\ UNCHANGED <<ioVars, cur, via, mutex, ioMutex, handle, tAttached, mainVars, closeVars>>

ImplRemove(t) ==
    /\ pc[t] = "impl_remove"
    /\ LET s == cur[t] IN
       \E r \in Results :
        /\ Fault(r)
        /\ calls' = [calls EXCEPT ![s] = Append(@, Call("remove", r))]
        /\ errorCode' = [errorCode EXCEPT ![s] = r]
        /\ lastRes' = [lastRes EXCEPT ![t] = r]
        /\ IF r = "DXF_FAILURE"
           THEN ErrorThen(t, "impl_ret")
           ELSE LogThen(t, "impl_detach")
    /\ UNCHANGED <<ioVars, cur, via, mutex, ioMutex, handle, tAttached, mainVars, closeVars>>

\* CloseImpl() going on to dxf_close_subscription after a failed detach
ImplDetach_NoReturn(t) ==
    /\ pc[t] = "impl_detach"
    /\ LET s == cur[t] IN
       \E r \in Results :
        /\ Fault(r)
        /\ calls' = [calls EXCEPT ![s] = Append(@, Call("detach", r))]
        /\ lastRes' = [lastRes EXCEPT ![t] = r]
        /\ tAttached' = [tAttached EXCEPT ![s] = (r = "DXF_FAILURE")]
        /\ LogThen(t, "impl_close")
    /\ UNCHANGED <<ioVars, cur, via, mutex, ioMutex, handle, errorCode, mainVars, closeVars>>

\* the result of dxf_detach_event_listener goes to a local, not to errorCode
ImplDetach(t) ==
    /\ pc[t] = "impl_detach"
    /\ LET s == cur[t] IN
       \E r \in Results :
        /\ Fault(r)
        /\ calls' = [calls EXCEPT ![s] = Append(@, Call("detach", r))]
        /\ lastRes' = [lastRes EXCEPT ![t] = r]
        /\ IF r = "DXF_FAILURE"
           THEN /\ ErrorThen(t, "impl_ret")
                /\ UNCHANGED tAttached
           ELSE /\ tAttached' = [tAttached EXCEPT ![s] = FALSE]
                /\ LogThen(t, "impl_close")
    /\ UNCHANGED <<ioVars, cur, via, mutex, ioMutex, handle, errorCode, mainVars, closeVars>>

ImplClose(t) ==
    /\ pc[t] = "impl_close"
    /\ LET s == cur[t] IN
       \E r \in Results :
        /\ Fault(r)
        /\ calls' = [calls EXCEPT ![s] = Append(@, Call("close", r))]
        /\ errorCode' = [errorCode EXCEPT ![s] = r]
        /\ lastRes' = [lastRes EXCEPT ![t] = r]
        /\ IF r = "DXF_FAILURE"
           THEN /\ ErrorThen(t, "impl_null")
                /\ UNCHANGED handle
           ELSE /\ handle' = [handle EXCEPT ![s] = NULL]
                /\ Goto(t, "impl_ret")
                /\ UNCHANGED ret
    /\ UNCHANGED <<ioVars, cur, via, mutex, ioMutex, tAttached, mainVars, closeVars>>

\* handle = nullptr only when dxf_close_subscription succeeded
ImplNull_OnlyOnSuccess(t) ==
    /\ pc[t] = "impl_null"
    /\ handle' = [handle EXCEPT ![cur[t]] =
                     IF lastRes[t] = "DXF_SUCCESS" THEN NULL ELSE @]
    /\ Goto(t, "impl_ret")
    /\ UNCHANGED <<ioVars, cur, ret, via, lastRes, mutex, ioMutex, errorCode, calls,
                   tAttached, mainVars, countVars>>

\* handle = nullptr, whatever dxf_close_subscription returned
ImplNull(t) ==
    /\ pc[t] = "impl_null"
    /\ handle' = [handle EXCEPT ![cur[t]] = NULL]
    /\ Goto(t, "impl_ret")
    /\ UNCHANGED <<ioVars, cur, ret, via, lastRes, mutex, ioMutex, errorCode, calls,
                   tAttached, mainVars, countVars>>

\* Close() returning without releasing the Subscription's mutex
CloseUnlock_KeepsMutex(t) ==
    /\ pc[t] = "impl_ret"
    /\ via[t] = "Close"
    /\ mutex[cur[t]] = t
    /\ closeReturned' = [closeReturned EXCEPT ![cur[t]] = TRUE]
    /\ Goto(t, Home(t))
    /\ cur' = [cur EXCEPT ![t] = NULL]
    /\ ret' = [ret EXCEPT ![t] = "none"]
    /\ via' = [via EXCEPT ![t] = "none"]
    /\ lastRes' = [lastRes EXCEPT ![t] = "none"]
    /\ UNCHANGED <<ioVars, mutex, ioMutex, subVars, mainVars, nCloses, nFaults>>

\* Close() returns: the lock_guard releases the Subscription's mutex
CloseUnlock(t) ==
    /\ pc[t] = "impl_ret"
    /\ via[t] = "Close"
    /\ mutex[cur[t]] = t
    /\ mutex' = [mutex EXCEPT ![cur[t]] = NoThread]
    /\ closeReturned' = [closeReturned EXCEPT ![cur[t]] = TRUE]
    /\ Goto(t, Home(t))
    /\ cur' = [cur EXCEPT ![t] = NULL]
    /\ ret' = [ret EXCEPT ![t] = "none"]
    /\ via' = [via EXCEPT ![t] = "none"]
    /\ lastRes' = [lastRes EXCEPT ![t] = "none"]
    /\ UNCHANGED <<ioVars, ioMutex, subVars, mainVars, nCloses, nFaults>>

\* --------------------------------------------------- main's scope exit
MainReturn ==
    /\ pc[Main] = "run"
    /\ \A c \in Closers : pc[c] = Home(c)
    /\ exiting' = TRUE
    /\ Goto(Main, "m_exit")
    /\ UNCHANGED <<ioVars, cur, ret, via, lastRes, mutex, ioMutex, subVars, nsubs,
                   destroyed, conn, nConnCloses, countVars>>

\* ~vector destroys an element: ~Subscription calls CloseImpl() with no lock
\* (the order in which a vector destroys its elements is not specified: the
\* standard libraries walk it front to back or back to front)
DtorBegin(s) ==
    /\ pc[Main] = "m_exit"
    /\ s \in (1..nsubs) \ destroyed
    /\ \/ destroyed = 1..(s - 1)
       \/ destroyed = (s + 1)..nsubs
    /\ cur' = [cur EXCEPT ![Main] = s]
    /\ via' = [via EXCEPT ![Main] = "dtor"]
    /\ lastRes' = [lastRes EXCEPT ![Main] = "none"]
    /\ ImplEnter(Main, s)
    /\ UNCHANGED <<ioVars, mutex, ioMutex, subVars, mainVars, countVars>>

\* the destruction of the vector giving up after a teardown that failed
DtorEnd_AbortOnFailure ==
    /\ pc[Main] = "impl_ret"
    /\ via[Main] = "dtor"
    /\ destroyed' = IF lastRes[Main] = "DXF_FAILURE"
                     THEN 1..nsubs
                     ELSE destroyed \cup {cur[Main]}
    /\ Goto(Main, "m_exit")
    /\ cur' = [cur EXCEPT ![Main] = NULL]
    /\ ret' = [ret EXCEPT ![Main] = "none"]
    /\ via' = [via EXCEPT ![Main] = "none"]
    /\ lastRes' = [lastRes EXCEPT ![Main] = "none"]
    /\ UNCHANGED <<ioVars, mutex, ioMutex, subVars, nsubs, conn, exiting, nConnCloses,
                   countVars>>

DtorEnd ==
    /\ pc[Main] = "impl_ret"
    /\ via[Main] = "dtor"
    /\ destroyed' = destroyed \cup {cur[Main]}
    /\ Goto(Main, "m_exit")
    /\ cur' = [cur EXCEPT ![Main] = NULL]
    /\ ret' = [ret EXCEPT ![Main] = "none"]
    /\ via' = [via EXCEPT ![Main] = "none"]
    /\ lastRes' = [lastRes EXCEPT ![Main] = "none"]
    /\ UNCHANGED <<ioVars, mutex, ioMutex, subVars, nsubs, conn, exiting, nConnCloses,
                   countVars>>

\* onScopeExit: the deleter of FINALLY_ calls f(), f being a reference to the
\* temporary lambda that died at the end of line 283's full expression.
ScopeExitOutcomes == {"DXF_SUCCESS", "DXF_FAILURE", "dangling"}

ScopeExit ==
    /\ pc[Main] = "m_exit"
    /\ destroyed = 1..nsubs
    /\ \E o \in ScopeExitOutcomes :
        CASE o = "DXF_SUCCESS" ->
                /\ conn' = "closed"
                /\ nConnCloses' = nConnCloses + 1
                /\ tAttached' = [s \in SubIds |-> FALSE]
                /\ Goto(Main, "done")
                /\ UNCHANGED ret
          [] o = "DXF_FAILURE" ->
                /\ nConnCloses' = nConnCloses + 1
                /\ ErrorThen(Main, "done")
                /\ UNCHANGED <<conn, tAttached>>
          [] OTHER ->
                /\ Goto(Main, "crashed")
                /\ UNCHANGED <<conn, nConnCloses, tAttached, ret>>
    /\ UNCHANGED <<ioVars, cur, via, lastRes, mutex, ioMutex, handle, errorCode, calls,
                   nsubs, destroyed, exiting, countVars>>

\* ---------------------------------------------------------------- listener
\* the transport invokes the listener of an attached handle on its own thread
Dispatch(s) ==
    /\ pc[Delivery] = "d_idle"
    /\ s \in SubIds
    /\ tAttached[s]
    /\ pc[Main] \notin {"done", "crashed"}
    /\ cur' = [cur EXCEPT ![Delivery] = s]
    /\ Goto(Delivery, "l_lock")
    /\ UNCHANGED <<ioVars, ret, via, lastRes, mutex, ioMutex, subVars, mainVars, countVars>>

\* the listener's first statement: lock_guard on ioMutex
ListenerLock ==
    /\ pc[Delivery] = "l_lock"
    /\ ioMutex = NoThread
    /\ ioMutex' = Delivery
    /\ Goto(Delivery, "l_body")
    /\ UNCHANGED <<ioVars, cur, ret, via, lastRes, mutex, subVars, mainVars, countVars>>

\* the listener returning with ioMutex still held
ListenerBody_KeepsLock ==
    /\ pc[Delivery] = "l_body"
    /\ ioMutex = Delivery
    /\ Goto(Delivery, "d_idle")
    /\ cur' = [cur EXCEPT ![Delivery] = NULL]
    /\ UNCHANGED <<ioVars, ret, via, lastRes, mutex, ioMutex, subVars, mainVars, countVars>>

\* the listener marking its Subscription as failed
ListenerBody_RecordsError ==
    /\ pc[Delivery] = "l_body"
    /\ ioMutex = Delivery
    /\ ioMutex' = NoThread
    /\ errorCode' = [errorCode EXCEPT ![cur[Delivery]] = "DXF_FAILURE"]
    /\ Goto(Delivery, "d_idle")
    /\ cur' = [cur EXCEPT ![Delivery] = NULL]
    /\ UNCHANGED <<ioVars, ret, via, lastRes, mutex, handle, calls, tAttached,
                   mainVars, countVars>>

\* the listener writes its output and returns, releasing ioMutex
ListenerBody ==
    /\ pc[Delivery] = "l_body"
    /\ ioMutex = Delivery
    /\ ioMutex' = NoThread
    /\ Goto(Delivery, "d_idle")
    /\ cur' = [cur EXCEPT ![Delivery] = NULL]
    /\ UNCHANGED <<ioVars, ret, via, lastRes, mutex, subVars, mainVars, countVars>>

\* -------------------------------------------------------------------- Next
Next ==
    \/ MainCreateConnection
    \/ CtorBegin
    \/ CtorCreate
    \/ CtorAttach
    \/ CtorAdd
    \/ CtorEnd
    \/ \E t \in Threads, s \in SubIds : CloseCall(t, s)
    \/ \E t \in Threads : CloseLock(t)
    \/ \E t \in Threads : ImplRemove(t)
    \/ \E t \in Threads : ImplDetach(t)
    \/ \E t \in Threads : ImplClose(t)
    \/ \E t \in Threads : ImplNull(t)
    \/ \E t \in Threads : CloseUnlock(t)
    \/ MainReturn
    \/ \E s \in SubIds : DtorBegin(s)
    \/ DtorEnd
    \/ ScopeExit
    \/ \E t \in Threads : LogLock(t)
    \/ \E t \in Threads : LogPrint(t)
    \/ \E t \in Threads : PLELock(t)
    \/ \E t \in Threads : PLEReport(t)
    \/ \E s \in SubIds : Dispatch(s)
    \/ ListenerLock
    \/ ListenerBody

Spec == Init /\ [][Next]_vars

\* ------------------------------------------- the two writers on their own
\* processLastError() and the listener as functions of what the transport
\* hands them: every answer of dxf_get_last_error, every kind and size of event
IoInit ==
    /\ ProgInit
    /\ glRes \in Results /\ glCode \in ErrorCodes /\ glDesc \in Descriptions
    /\ evType \in EventTypes /\ dataCount \in DataCounts
    /\ message = <<>> /\ output = <<>>

\* one run of processLastError(): lock ioMutex, retrieve, write, unlock
ProcessLastErrorCall ==
    /\ message = <<>>
    /\ ioMutex = NoThread
    /\ message' = ProcessLastErrorMessage(glRes, glCode, glDesc)
    /\ UNCHANGED <<pc, cur, ret, via, lastRes, mutex, ioMutex, subVars, mainVars,
                   countVars, glRes, glCode, glDesc, evType, dataCount, output>>

\* one invocation of the listener: lock ioMutex, write, unlock
ListenerCall ==
    /\ output = <<>>
    /\ ioMutex = NoThread
    /\ output' = ListenerOutput(evType, dataCount)
    /\ UNCHANGED <<pc, cur, ret, via, lastRes, mutex, ioMutex, subVars, mainVars,
                   countVars, glRes, glCode, glDesc, message, evType, dataCount>>

IoNext == ProcessLastErrorCall \/ ListenerCall

IoSpec == IoInit /\ [][IoNext]_vars

\* ---------------------------------------------------------------- fairness
\* the steps of a thread that is inside CloseImpl() or Close(), other than
\* its waits for a mutex: the transport calls return and the thread is scheduled
CloseSteps(t) ==
    \/ ImplRemove(t) \/ ImplDetach(t) \/ ImplClose(t) \/ ImplNull(t)
    \/ CloseUnlock(t) \/ LogPrint(t) \/ PLEReport(t)

\* a thread that is ready to run runs; a thread waiting for a mutex that is
\* released again and again gets it; a listener that was invoked finishes.
\* Nothing obliges the transport to deliver or the application to call Close().
Fairness ==
    /\ \A t \in Threads :
        /\ WF_vars(CloseSteps(t))
        /\ SF_vars(CloseLock(t))
        /\ SF_vars(LogLock(t))
        /\ SF_vars(PLELock(t))
    /\ SF_vars(ListenerLock)
    /\ WF_vars(ListenerBody)

FairSpec == Init /\ [][Next]_vars /\ Fairness

\* ============================================================ properties
OkCall(op) == [op |-> op, ok |-> TRUE]
FailCall(op) == [op |-> op, ok |-> FALSE]

IsSetupCall(c) == c.op \in SetupOps
IsTeardownCall(c) == c.op \in TeardownOps

SetupLog(s) == SelectSeq(calls[s], IsSetupCall)
TeardownLog(s) == SelectSeq(calls[s], IsTeardownCall)

Count(s, op) == Cardinality({i \in DOMAIN calls[s] : calls[s][i].op = op})

IsPrefix(a, b) == Len(a) <= Len(b) /\ \A i \in DOMAIN a : a[i] = b[i]

FullSetup == <<OkCall("create"), OkCall("attach"), OkCall("add")>>
FullTeardown == <<OkCall("remove"), OkCall("detach"), OkCall("close")>>
SetupOrder == <<"create", "attach", "add">>

SetupOK(s) == SetupLog(s) = FullSetup
CreateOK(s) == Len(calls[s]) > 0 /\ calls[s][1] = OkCall("create")
CreateFailed(s) == Len(calls[s]) > 0 /\ calls[s][1] = FailCall("create")
\* a handle was allocated and attach or add then failed
PartialSetup(s) ==
    /\ CreateOK(s)
    /\ \E i \in DOMAIN calls[s] : calls[s][i] \in {FailCall("attach"), FailCall("add")}
NoCallFailed(s) == \A i \in DOMAIN calls[s] : calls[s][i].ok
TeardownFailed(s) ==
    \E i \in DOMAIN calls[s] : IsTeardownCall(calls[s][i]) /\ ~calls[s][i].ok

\* constructed, and no constructor, Close() or destructor is running on it
Quiescent(s) == s <= nsubs /\ \A t \in Threads : cur[t] # s

\* C1: a Subscription whose setup and teardown calls all succeed sees at most
\* one remove, one detach and one close, in that order, however many Close()
\* calls are issued and from whichever threads; once a Close() has returned
\* the whole sequence has run and the handle is null.
C1_IdempotentClose ==
    \A s \in SubIds :
        (SetupOK(s) /\ NoCallFailed(s)) =>
            /\ IsPrefix(TeardownLog(s), FullTeardown)
            /\ closeReturned[s] => (TeardownLog(s) = FullTeardown /\ handle[s] = NULL)

\* a further Close() has passed the guard of a Subscription already torn down
C1_Witness ==
    \E s \in SubIds, t \in Threads :
        /\ SetupOK(s) /\ TeardownLog(s) = FullTeardown /\ closeReturned[s]
        /\ cur[t] = s /\ via[t] = "Close" /\ pc[t] = "impl_ret"

\* C2: every handle that was allocated is released by exactly one
\* dxf_close_subscription over the Subscription's lifetime, whatever the
\* transport calls return.
C2_ExactlyOnceRelease ==
    \A s \in SubIds :
        CreateOK(s) =>
            /\ Count(s, "close") <= 1
            /\ (s \in destroyed => Count(s, "close") = 1)

\* C3: Close() after a setup that failed at attach or add releases the handle
\* (when its own teardown calls succeed); after a failed create it makes no
\* transport call.
C3_ClosableAfterPartialSetup ==
    \A s \in SubIds :
        closeReturned[s] =>
            /\ (PartialSetup(s) /\ ~TeardownFailed(s)) =>
                   (handle[s] = NULL /\ Count(s, "close") = 1)
            /\ CreateFailed(s) => TeardownLog(s) = <<>>

\* C4: when CloseImpl() returns after a teardown step failed, that step is the
\* last call issued, errorCode records the failure and the handle is non-null.
C4_TeardownFailureHandling ==
    \A t \in Threads :
        (pc[t] = "impl_ret" /\ lastRes[t] = "DXF_FAILURE") =>
            /\ ~calls[cur[t]][Len(calls[cur[t]])].ok
            /\ errorCode[cur[t]] = "DXF_FAILURE"
            /\ handle[cur[t]] # NULL

\* C5: once a teardown step has failed, no further transport call is issued
\* for that Subscription.
C5_NoRetryAfterFailedTeardown ==
    [][\A s \in SubIds : TeardownFailed(s) => calls'[s] = calls[s]]_vars

\* C6: the setup calls are create, attach, add in that order, none follows a
\* failed one; when the constructor returns errorCode is DXF_FAILURE if a step
\* failed, and otherwise all three ran, the handle is non-null and errorCode
\* is DXF_SUCCESS.
C6_FailFastSetup ==
    \A s \in SubIds :
        LET L == SetupLog(s) IN
        /\ Len(L) <= 3
        /\ \A i \in DOMAIN L : L[i].op = SetupOrder[i]
        /\ \A i \in DOMAIN L : i < Len(L) => L[i].ok
        /\ (pc[Main] = "ctor_end" /\ cur[Main] = s) =>
               IF \E i \in DOMAIN L : ~L[i].ok
               THEN errorCode[s] = "DXF_FAILURE"
               ELSE L = FullSetup /\ handle[s] # NULL /\ errorCode[s] = "DXF_SUCCESS"

\* the constructor returns after a failed attach
C6_Witness ==
    \E s \in SubIds :
        /\ pc[Main] = "ctor_end" /\ cur[Main] = s
        /\ calls[s] = <<OkCall("create"), FailCall("attach")>>

\* C7 as stated: between operations the handle is non-null iff the
\* Subscription is Active (all three setup steps succeeded and the teardown
\* has not released the handle).
Active(s) == SetupOK(s) /\ Count(s, "close") = 0

C7_HandleIffActive ==
    \A s \in SubIds : Quiescent(s) => (handle[s] # NULL <=> Active(s))

\* C7 amended: between operations the handle is non-null iff it was allocated
\* (create succeeded) and dxf_close_subscription has not been called on it.
C7_HandleIffAllocatedNotReleased ==
    \A s \in SubIds :
        Quiescent(s) => (handle[s] # NULL <=> (CreateOK(s) /\ Count(s, "close") = 0))

\* a Subscription at rest that kept its handle although its setup failed
C7_Witness ==
    \E s \in SubIds : Quiescent(s) /\ PartialSetup(s) /\ handle[s] # NULL

\* C8: once the teardown has set the handle to null, no step makes it
\* non-null again or issues another transport call for the Subscription.
Nulled(s) == handle[s] = NULL /\ Count(s, "close") > 0

C8_ClosedIsTerminal ==
    [][\A s \in SubIds :
          Nulled(s) => (handle'[s] = NULL /\ calls'[s] = calls[s])]_vars

\* a Close() or the destructor reaches the guard of a torn-down Subscription
\* while a listener invocation of it is still running
C8_Witness ==
    \E s \in SubIds, t \in Threads :
        /\ Nulled(s) /\ cur[t] = s /\ pc[t] = "impl_ret" /\ lastRes[t] = "none"
        /\ \E s2 \in SubIds : cur[Delivery] = s2 /\ pc[Delivery] = "l_body"

\* C9: every dxf_close_subscription directly follows a successful detach,
\* and every detach directly follows a successful remove.
C9_TeardownOrder ==
    \A s \in SubIds : \A i \in DOMAIN calls[s] :
        /\ calls[s][i].op = "close" => (i > 1 /\ calls[s][i - 1] = OkCall("detach"))
        /\ calls[s][i].op = "detach" => (i > 1 /\ calls[s][i - 1] = OkCall("remove"))

\* a handle was closed after a first teardown had stopped at a failed detach
C9_Witness ==
    \E s \in SubIds :
        /\ Count(s, "close") = 1
        /\ \E i \in DOMAIN calls[s] : calls[s][i] = FailCall("detach")

\* C10: when main has ended, every Subscription was destroyed and the
\* teardown body has run for every one that was set up, whatever failed in
\* the teardown of the others.
C10_CloseAllResilience ==
    (pc[Main] \in {"done", "crashed"} /\ conn # "none") =>
        \A s \in SubIds :
            /\ s \in destroyed
            /\ SetupOK(s) => Count(s, "remove") >= 1

\* destruction alone tore down two Subscriptions, one failing, one completing
C10_Witness ==
    /\ pc[Main] = "done"
    /\ nCloses = 0
    /\ \E s1, s2 \in SubIds :
        /\ TeardownLog(s1) = <<FailCall("remove")>>
        /\ TeardownLog(s2) = FullTeardown

\* thread t is inside a Close() call
InClose(t) == via[t] = "Close"

\* C11: every step a thread takes inside Close() on a Subscription leaves the
\* handle and the errorCode of every other Subscription as they were and
\* issues no transport call on another Subscription's handle.
C11_Isolation ==
    [][\A t \in Threads :
          (InClose(t) /\ pc'[t] # pc[t]) =>
              \A b \in SubIds \ {cur[t]} :
                  /\ handle'[b] = handle[b]
                  /\ errorCode'[b] = errorCode[b]
                  /\ calls'[b] = calls[b]]_vars

\* a Close() tore one Subscription down while another stayed set up and untouched
C11_Witness ==
    \E a, b \in SubIds, t \in Threads :
        /\ a # b
        /\ InClose(t) /\ cur[t] = a /\ pc[t] = "impl_ret"
        /\ TeardownLog(a) = FullTeardown /\ handle[a] = NULL
        /\ SetupOK(b) /\ TeardownLog(b) = <<>>
        /\ handle[b] # NULL /\ errorCode[b] = "DXF_SUCCESS"

\* a listener invocation for s has been dispatched and has not returned
InFlight(s) == pc[Delivery] \in {"l_lock", "l_body"} /\ cur[Delivery] = s

\* C12: a Close() that runs while a listener invocation for the same
\* Subscription is in flight returns in the end, and the invocation completes
\* even when the handle has been released under it: it does not use the handle.
C12_DispatchDuringTeardown ==
    \A s \in SubIds :
        /\ \A t \in Threads :
            (InClose(t) /\ cur[t] = s /\ InFlight(s)) ~> ~InClose(t)
        /\ (InFlight(s) /\ handle[s] = NULL /\ Count(s, "close") = 1)
               ~> (pc[Delivery] = "d_idle")

\* an invocation dispatched before the detach is still in flight when the
\* Close() on its Subscription has released the handle
C12_Witness ==
    \E s \in SubIds, t \in Threads :
        /\ InFlight(s)
        /\ InClose(t) /\ cur[t] = s /\ pc[t] = "impl_ret"
        /\ TeardownLog(s) = FullTeardown /\ handle[s] = NULL

\* C13: with a transport that delivers only to attached listeners, a listener
\* invocation carrying a Subscription's identity is in flight only after the
\* attach call of that Subscription was issued, and an attach call is issued
\* only as the call right after a successful handle allocation.
C13_SetupOrderDependency ==
    \A s \in SubIds :
        /\ InFlight(s) => Count(s, "attach") >= 1
        /\ \A i \in DOMAIN calls[s] :
            calls[s][i].op = "attach" => (i = 2 /\ calls[s][1] = OkCall("create"))

\* the listener of a Subscription is invoked while its constructor is still
\* between the attach and the add-symbol call
C13_Witness ==
    \E s \in SubIds :
        /\ InFlight(s)
        /\ cur[Main] = s /\ s = nsubs + 1
        /\ SetupLog(s) = <<OkCall("create"), OkCall("attach")>>

\* C14: processLastError() writes exactly one of three different messages:
\* "no error stored" exactly when the retrieval succeeded with dx_ec_success,
\* the message with the code and the description exactly when it succeeded
\* with another code, the "error subsystem" message exactly when it failed.
C14_ErrorReporterTrichotomy ==
    /\ NoErrorMessage # SubsystemMessage
    /\ \A c \in ErrorCodes, d \in Descriptions :
        RetrievedMessage(c, d) \notin {NoErrorMessage, SubsystemMessage}
    /\ message # <<>> =>
        /\ message = NoErrorMessage
               <=> (glRes = "DXF_SUCCESS" /\ glCode = dx_ec_success)
        /\ message = RetrievedMessage(glCode, glDesc)
               <=> (glRes = "DXF_SUCCESS" /\ glCode # dx_ec_success)
        /\ message = SubsystemMessage <=> glRes = "DXF_FAILURE"

\* the retrieval failed leaving dx_ec_success in errorCode, and the "error
\* subsystem" message was written
C14_Witness ==
    /\ glRes = "DXF_FAILURE" /\ glCode = dx_ec_success
    /\ message = SubsystemMessage

\* C15: no step of a listener invocation, at whatever point of the lifecycle
\* of the Subscriptions it comes, changes the handle or the errorCode of any
\* Subscription or issues a transport call.
C15_DispatchHasNoEffect ==
    [][(pc'[Delivery] # pc[Delivery] \/ output' # output) =>
          /\ handle' = handle
          /\ errorCode' = errorCode
          /\ calls' = calls]_vars

\* the listener is writing for a Subscription that a Close() has half torn down
C15_Witness ==
    \E s \in SubIds, t \in Threads :
        /\ pc[Delivery] = "l_body" /\ cur[Delivery] = s
        /\ InClose(t) /\ cur[t] = s
        /\ TeardownLog(s) = <<OkCall("remove")>>

\* thread t is past the guard of CloseImpl(), in the teardown body or just out of it
InTeardownBody(t) == via[t] \in {"Close", "dtor"} /\ pc[t] # "close_lock"

\* C16: whichever way the teardown body of a Subscription is entered, by
\* Close() or by the destructor, the thread running it holds that
\* Subscription's mutex, so no two threads are in it at once.
C16_AllTeardownPathsLocked ==
    /\ \A t \in Threads : InTeardownBody(t) => mutex[cur[t]] = t
    /\ \A t1, t2 \in Threads :
        (t1 # t2 /\ InTeardownBody(t1) /\ InTeardownBody(t2)) => cur[t1] # cur[t2]

\* C17: when main has ended after creating the connection,
\* dxf_close_connection was called exactly once; it is never called before
\* every Subscription has been destroyed; and when the creation of the
\* connection failed there is no Subscription and no such call.
C17_ConnectionOutlivesSubscriptions ==
    /\ (pc[Main] \in {"done", "crashed"} /\ conn # "none") => nConnCloses = 1
    /\ nConnCloses <= 1
    /\ nConnCloses = 1 =>
        /\ destroyed = 1..nsubs
        /\ \A t \in Threads : ~InTeardownBody(t)
    /\ conn = "none" =>
        /\ nsubs = 0 /\ nConnCloses = 0
        /\ \A s \in SubIds : calls[s] = <<>>

\* C18: an invocation of the listener with a quote event of dataCount records
\* writes every one of them, one output per record in their order, and an
\* invocation with any other kind of event writes no record.
C18_PerRecordDispatch ==
    output # <<>> =>
        Tail(output) = IF evType = "DXF_ET_QUOTE"
                       THEN [i \in 1..dataCount |-> QuoteRecord(i)]
                       ELSE <<>>

\* thread t is writing diagnostic output: a log() line, a message of
\* processLastError() or the body of a listener invocation
Writing(t) == pc[t] \in {"log_print", "ple_report", "l_body"}

\* C19: a thread that is writing diagnostic output holds ioMutex, so no two
\* threads write at once; and the only other locks, the Subscriptions' own
\* mutexes, are each held only by a thread operating on that Subscription.
C19_SerializedOutput ==
    /\ \A t \in AllThreads : Writing(t) => ioMutex = t
    /\ Cardinality({t \in AllThreads : Writing(t)}) <= 1
    /\ \A s \in SubIds : mutex[s] # NoThread => cur[mutex[s]] = s

\* one thread writes a log line while the listener and a Close() on another
\* Subscription both wait for ioMutex
C19_Witness ==
    \E t, u \in Threads :
        /\ t # u /\ cur[t] # cur[u]
        /\ pc[t] = "log_print" /\ ioMutex = t
        /\ pc[u] \in {"log_lock", "ple_lock"}
        /\ pc[Delivery] = "l_lock"

\* the positions at which a thread is about to make a setup or teardown transport call
TransportPcs ==
    {"ctor_create", "ctor_attach", "ctor_add", "impl_remove", "impl_detach", "impl_close"}

\* thread t waits for a mutex that another thread holds
Blocked(t) ==
    \/ pc[t] = "close_lock" /\ mutex[cur[t]] # NoThread
    \/ pc[t] \in {"log_lock", "ple_lock", "l_lock"} /\ ioMutex # NoThread

\* the threads inside a Close() and the listener invocation in flight
Engaged ==
    {t \in Threads : InClose(t)} \cup
        (IF pc[Delivery] # "d_idle" THEN {Delivery} ELSE {})

\* thread t has nothing under way: no call, no invocation, or main has ended
Resting(t) == pc[t] \in {"idle", "d_idle", "run", "done", "crashed"}

LockOrder ==
    /\ \A t \in Threads : pc[t] = "close_lock" =>
        /\ ioMutex # t
        /\ \A s \in SubIds : mutex[s] # t
    /\ \A t \in Threads : pc[t] \in TransportPcs => ioMutex # t
    /\ Engaged # {} => \E t \in AllThreads : ~Resting(t) /\ ~Blocked(t)

\* C20: a thread asks for a Subscription's mutex only while it holds no lock
\* at all, ioMutex is free of it at every setup and teardown transport call,
\* while a Close() or a listener invocation is under way the threads that
\* have something under way are never all waiting for a lock, and every
\* Close() that was called returns.
C20_DeadlockFreedom ==
    /\ []LockOrder
    /\ \A t \in Threads : InClose(t) ~> ~InClose(t)

\* a chain of waits that is no deadlock: the listener writes, a Close()
\* holding its Subscription's mutex waits for ioMutex, and a second Close()
\* waits for that mutex
C20_Witness ==
    \E t, u \in Threads, s \in SubIds :
        /\ pc[Delivery] = "l_body" /\ ioMutex = Delivery
        /\ mutex[s] = t /\ pc[t] = "log_lock"
        /\ pc[u] = "close_lock" /\ cur[u] = s

====
